---- MODULE Spec2Model ----
(***************************************************************************)
(* withings-exporter: main() obtains an access token (preset in the        *)
(* environment, or through oauthFlow), fetches the weight measurements     *)
(* once, sets the gauge withings_current_weight and serves /metrics.       *)
(*                                                                         *)
(* Each function is cut into steps at its blocking I/O (console read,      *)
(* client.Do); pc is main's position.  Locals of a function that has       *)
(* returned are reset to their zero values; exchanged and fetched keep     *)
(* what the two endpoints answered, reduced to the parts the program reads.*)
(***************************************************************************)
EXTENDS Integers, Sequences, FiniteSets, TLC

VARIABLES env, pc, exit, accessToken, line, authCode, tokenReq, tokenRes,
          measReq, measRes, currentWeight, gauge, registered, handled,
          listening, scrapes, io, exchanged, fetched

vars == <<env, pc, exit, accessToken, line, authCode, tokenReq, tokenRes,
          measReq, measRes, currentWeight, gauge, registered, handled,
          listening, scrapes, io, exchanged, fetched>>

(***************************************************************************)
(* Bounds of the model.                                                    *)
(***************************************************************************)
MaxLineLen == 2
MaxGroups == 2
MaxMeasures == 1
MaxScrapes == 2

(***************************************************************************)
(* Sequences over S of length at most n.                                   *)
(***************************************************************************)
SeqUpTo(S, n) == UNION {[1..k -> S] : k \in 0..n}

(***************************************************************************)
(* Environment: the three variables main reads.  "" is unset/empty.        *)
(***************************************************************************)
Tokens == {"", "tok0"}
ClientIDs == {"", "id"}
ClientSecrets == {"", "secret"}
Envs == [token : Tokens, clientID : ClientIDs, clientSecret : ClientSecrets]

(***************************************************************************)
(* Console lines (without the newline): a letter, a space, and DEL, an     *)
(* ASCII control character that is not white space.                        *)
(***************************************************************************)
Chars == {"a", " ", "DEL"}
Lines == SeqUpTo(Chars, MaxLineLen)

IsSpace(c) == c = " "
IsCTL(c) == c = "DEL"

RECURSIVE SkipSpace(_)
SkipSpace(s) ==
    IF s # <<>> /\ IsSpace(Head(s)) THEN SkipSpace(Tail(s)) ELSE s

RECURSIVE Token(_)
Token(s) ==
    IF s = <<>> \/ IsSpace(Head(s)) THEN <<>>
    ELSE <<Head(s)>> \o Token(Tail(s))

(***************************************************************************)
(* fmt.Scanln(&authCode): skips leading spaces and stores the first        *)
(* space-delimited token; on an empty line it fails and authCode keeps     *)
(* its initial value "".  The returned error is dropped by the caller.     *)
(***************************************************************************)
Scanln_WholeLine(l) == l
Scanln(l) == Token(SkipSpace(l))

(***************************************************************************)
(* The token URL, by its interpolated parts (fmt.Sprintf, no escaping).    *)
(***************************************************************************)
TokenURL(clientID, clientSecret, code) ==
    [path |-> "/v2/oauth2", client_id |-> clientID,
     client_secret |-> clientSecret, code |-> code]

(***************************************************************************)
(* http.NewRequest fails when the URL does not parse: a control character  *)
(* in it.  The rest of the URL is fixed text and the credentials.          *)
(***************************************************************************)
NewRequestFails(url) == \E i \in 1..Len(url.code) : IsCTL(url.code[i])

(***************************************************************************)
(* JSON values of a field: a string, a number, or the field is absent.     *)
(***************************************************************************)
JStr(s) == [t |-> "str", s |-> s, n |-> 0]
JNum(n) == [t |-> "num", s |-> "", n |-> n]
JAbsent == [t |-> "absent", s |-> "", n |-> 0]

(***************************************************************************)
(* json.Unmarshal into a string / float64 field: a value of another JSON   *)
(* type is skipped (the field keeps its zero value) and reported as an     *)
(* error.                                                                  *)
(***************************************************************************)
UnmarshalString(j) == IF j.t = "str" THEN j.s ELSE ""
UnmarshalNumber(j) == IF j.t = "num" THEN j.n ELSE 0
Mismatch(j, t) == j.t # "absent" /\ j.t # t

(***************************************************************************)
(* What client.Do hands back: (nil, err); (res, err) with the body already *)
(* closed (a failed redirect check); or (res, nil) with a body.            *)
(* A body is either not JSON (syntax = FALSE) or a JSON document.          *)
(***************************************************************************)
NoTokenDoc == [syntax |-> FALSE, status |-> JAbsent, access_token |-> JAbsent]
TokenDocs ==
    [syntax : {TRUE}, status : {JNum(0), JStr("bad")},
     access_token : {JAbsent, JStr(""), JStr("tokA"), JNum(7)}]
TokenBodies == {NoTokenDoc} \cup TokenDocs

TokenOutcomes ==
    {[err |-> TRUE, nilRes |-> TRUE, body |-> NoTokenDoc],
     [err |-> TRUE, nilRes |-> FALSE, body |-> NoTokenDoc]}
    \cup [err : {FALSE}, nilRes : {FALSE}, body : TokenBodies]

NoTokenRes == [err |-> FALSE, nilRes |-> TRUE, body |-> NoTokenDoc]

(***************************************************************************)
(* RequestToken after json.Unmarshal(body, &parsedRequestToken).           *)
(***************************************************************************)
ParseRequestToken(body) ==
    IF body.syntax
    THEN [AccessToken |-> UnmarshalString(body.access_token)]
    ELSE [AccessToken |-> ""]

TokenUnmarshalFails(body) ==
    \/ ~body.syntax
    \/ Mismatch(body.status, "num")
    \/ Mismatch(body.access_token, "str")

(***************************************************************************)
(* The answer of the token endpoint, as the history keeps it.              *)
(***************************************************************************)
NotExchanged ==
    [got |-> FALSE, err |-> FALSE, nilRes |-> FALSE, syntax |-> FALSE,
     typeErr |-> FALSE, access_token |-> JAbsent]

TokenSummary(out) ==
    [got |-> TRUE, err |-> out.err, nilRes |-> out.nilRes,
     syntax |-> out.body.syntax,
     typeErr |-> out.body.syntax /\ TokenUnmarshalFails(out.body),
     access_token |-> out.body.access_token]

(***************************************************************************)
(* Measurement documents.                                                  *)
(***************************************************************************)
MeasureSet ==
    {[value |-> JNum(75000), type |-> 1],
     [value |-> JNum(1500), type |-> 6],
     [value |-> JStr("75000"), type |-> 1]}
Dates == {0, 1}
GroupSet == [date : Dates, measures : SeqUpTo(MeasureSet, MaxMeasures)]

NoMeasureDoc == [syntax |-> FALSE, hasGroups |-> FALSE, measuregrps |-> <<>>]
MeasureDocs ==
    {[syntax |-> TRUE, hasGroups |-> FALSE, measuregrps |-> <<>>]}
    \cup [syntax : {TRUE}, hasGroups : {TRUE},
          measuregrps : SeqUpTo(GroupSet, MaxGroups)]
MeasureBodies == {NoMeasureDoc} \cup MeasureDocs

MeasureOutcomes ==
    {[err |-> TRUE, nilRes |-> TRUE, body |-> NoMeasureDoc],
     [err |-> TRUE, nilRes |-> FALSE, body |-> NoMeasureDoc]}
    \cup [err : {FALSE}, nilRes : {FALSE}, body : MeasureBodies]

NoMeasureRes == [err |-> FALSE, nilRes |-> TRUE, body |-> NoMeasureDoc]

(***************************************************************************)
(* Measures after json.Unmarshal(body, &parsedMeasures).                   *)
(***************************************************************************)
ParseMeasure(m) == [Value |-> UnmarshalNumber(m.value), Type |-> m.type]

ParseGroup(g) ==
    [Date |-> g.date,
     Measures |-> [i \in 1..Len(g.measures) |-> ParseMeasure(g.measures[i])]]

ParseMeasures(body) ==
    IF body.syntax
    THEN [MeasureGroups |->
            [i \in 1..Len(body.measuregrps) |-> ParseGroup(body.measuregrps[i])]]
    ELSE [MeasureGroups |-> <<>>]

MeasuresUnmarshalFails(body) ==
    \/ ~body.syntax
    \/ \E i \in 1..Len(body.measuregrps) :
         \E j \in 1..Len(body.measuregrps[i].measures) :
            Mismatch(body.measuregrps[i].measures[j].value, "num")

(***************************************************************************)
(* The answer of the measurement endpoint, as the history keeps it: the    *)
(* number of groups, the length of the first group's measure list, whether *)
(* any group has a measure, and the first measure of the first group.      *)
(***************************************************************************)
NotFetched ==
    [got |-> FALSE, err |-> FALSE, nilRes |-> FALSE, syntax |-> FALSE,
     typeErr |-> FALSE, hasGroups |-> FALSE, groups |-> 0,
     firstMeasures |-> 0, anyMeasures |-> FALSE, firstValue |-> JAbsent,
     firstType |-> 0, firstDate |-> 0]

MeasureSummary(out) ==
    LET gs == out.body.measuregrps
        some == Len(gs) > 0 /\ Len(gs[1].measures) > 0
    IN  [got |-> TRUE, err |-> out.err, nilRes |-> out.nilRes,
         syntax |-> out.body.syntax,
         typeErr |-> out.body.syntax /\ MeasuresUnmarshalFails(out.body),
         hasGroups |-> out.body.hasGroups,
         groups |-> Len(gs),
         firstMeasures |-> IF Len(gs) > 0 THEN Len(gs[1].measures) ELSE 0,
         anyMeasures |-> \E i \in 1..Len(gs) : Len(gs[i].measures) > 0,
         firstValue |-> IF some THEN gs[1].measures[1].value ELSE JAbsent,
         firstType |-> IF some THEN gs[1].measures[1].type ELSE 0,
         firstDate |-> IF Len(gs) > 0 THEN gs[1].date ELSE 0]

(***************************************************************************)
(* float64 values with three decimals: v / 1000 exactly.                   *)
(***************************************************************************)
Float(whole, milli) == [whole |-> whole, milli |-> milli]
Div1000_Truncating(v) == Float(v \div 1000, 0)
Div1000(v) == Float(v \div 1000, v % 1000)
ZeroFloat == Float(0, 0)

(***************************************************************************)
(* parsedMeasures.Body.MeasureGroups[0].Measures[0].Value / 1000: the      *)
(* index expressions panic on an empty slice.                              *)
(***************************************************************************)
IndexPanics(parsed) ==
    \/ Len(parsed.MeasureGroups) = 0
    \/ Len(parsed.MeasureGroups[1].Measures) = 0

FirstValue(parsed) == Div1000(parsed.MeasureGroups[1].Measures[1].Value)

(***************************************************************************)
(* Initial state: the process has started, nothing has run.                *)
(***************************************************************************)
NoRequest == [sent |-> FALSE, code |-> <<>>, bearer |-> ""]

Init ==
    /\ env \in Envs
    /\ pc = "main"
    /\ exit = "running"
    /\ accessToken = ""
    /\ line = <<>>
    /\ authCode = <<>>
    /\ tokenReq = NoRequest
    /\ tokenRes = NoTokenRes
    /\ measReq = NoRequest
    /\ measRes = NoMeasureRes
    /\ currentWeight = ZeroFloat
    /\ gauge = [created |-> FALSE, value |-> ZeroFloat, sets |-> 0]
    /\ registered = FALSE
    /\ handled = FALSE
    /\ listening = FALSE
    /\ scrapes = <<>>
    /\ io = <<>>
    /\ exchanged = NotExchanged
    /\ fetched = NotFetched

Terminate(how) ==
    /\ pc' = "exited"
    /\ exit' = how

(***************************************************************************)
(* main, lines 48-60: the token from the environment, else the             *)
(* credentials, else the early return.                                     *)
(***************************************************************************)
NeedsOauth_Always(token) == TRUE
NeedsOauth(token) == token = ""

MissingCredentials_Both(clientID, clientSecret) == clientID = "" /\ clientSecret = ""
MissingCredentials(clientID, clientSecret) == clientID = "" \/ clientSecret = ""

MainStart ==
    /\ pc = "main"
    /\ accessToken' = env.token
    /\ IF NeedsOauth(env.token)
       THEN IF MissingCredentials(env.clientID, env.clientSecret)
            THEN /\ Terminate("returned")
                 /\ io' = Append(io, "print_setup_hint")
            ELSE /\ pc' = "oauth_prompt"
                 /\ UNCHANGED <<exit, io>>
       ELSE /\ pc' = "new_gauge"
            /\ UNCHANGED <<exit, io>>
    /\ UNCHANGED <<env, line, authCode, tokenReq, tokenRes, measReq, measRes,
                   currentWeight, gauge, registered, handled, listening, scrapes, exchanged, fetched>>

(***************************************************************************)
(* oauthFlow, lines 81-84: print the authorization URL and the prompt,     *)
(* read one line.                                                          *)
(***************************************************************************)
OauthPrompt ==
    /\ pc = "oauth_prompt"
    /\ \E l \in Lines :
        /\ line' = l
        /\ authCode' = Scanln(l)
    /\ io' = io \o <<"print_auth_url", "read_line">>
    /\ pc' = "oauth_post"
    /\ UNCHANGED <<env, exit, accessToken, tokenReq, tokenRes, measReq, measRes,
                   currentWeight, gauge, registered, handled, listening, scrapes, exchanged, fetched>>

(***************************************************************************)
(* oauthFlow, lines 86-98: build the request and send it.  A nil request   *)
(* (NewRequest failed, error printed) makes client.Do panic before         *)
(* anything is sent.                                                       *)
(***************************************************************************)
OauthPost ==
    /\ pc = "oauth_post"
    /\ LET url == TokenURL(env.clientID, env.clientSecret, authCode) IN
        IF NewRequestFails(url)
        THEN /\ Terminate("panic_nil")
             /\ io' = Append(io, "print_err")
             /\ UNCHANGED <<tokenReq, tokenRes, exchanged>>
        ELSE /\ tokenReq' = [sent |-> TRUE, code |-> url.code, bearer |-> ""]
             /\ \E out \in TokenOutcomes :
                 /\ tokenRes' = out
                 /\ exchanged' = TokenSummary(out)
                 /\ io' = IF out.err
                          THEN io \o <<"post_token", "print_err">>
                          ELSE Append(io, "post_token")
             /\ pc' = "oauth_parse"
             /\ UNCHANGED exit
    /\ UNCHANGED <<env, accessToken, line, authCode, measReq, measRes,
                   currentWeight, gauge, registered, handled, listening, scrapes, fetched>>

(***************************************************************************)
(* oauthFlow, lines 100-108: defer res.Body.Close() dereferences res;      *)
(* read the body, unmarshal, print the export hint, return the token.      *)
(***************************************************************************)
OauthParse_Retry ==
    /\ pc = "oauth_parse"
    /\ IF tokenRes.nilRes
       THEN /\ pc' = "oauth_post"
            /\ UNCHANGED <<exit, accessToken, line, authCode, tokenReq, tokenRes, io>>
       ELSE /\ accessToken' = ParseRequestToken(tokenRes.body).AccessToken
            /\ io' = Append(io, "print_export_hint")
            /\ line' = <<>>
            /\ authCode' = <<>>
            /\ tokenReq' = NoRequest
            /\ tokenRes' = NoTokenRes
            /\ pc' = "new_gauge"
            /\ UNCHANGED exit
    /\ UNCHANGED <<env, measReq, measRes, currentWeight, gauge, registered,
                   handled, listening, scrapes, exchanged, fetched>>

OauthParse ==
    /\ pc = "oauth_parse"
    /\ IF tokenRes.nilRes
       THEN /\ Terminate("panic_nil")
            /\ UNCHANGED <<accessToken, line, authCode, tokenReq, tokenRes, io>>
       ELSE /\ accessToken' = ParseRequestToken(tokenRes.body).AccessToken
            /\ io' = Append(io, "print_export_hint")
            /\ line' = <<>>
            /\ authCode' = <<>>
            /\ tokenReq' = NoRequest
            /\ tokenRes' = NoTokenRes
            /\ pc' = "new_gauge"
            /\ UNCHANGED exit
    /\ UNCHANGED <<env, measReq, measRes, currentWeight, gauge, registered,
                   handled, listening, scrapes, exchanged, fetched>>

(***************************************************************************)
(* main, lines 62-67: prometheus.NewGauge; a new gauge holds 0.            *)
(***************************************************************************)
NewGauge ==
    /\ pc = "new_gauge"
    /\ gauge' = [created |-> TRUE, value |-> ZeroFloat, sets |-> 0]
    /\ pc' = "meas_post"
    /\ UNCHANGED <<env, exit, accessToken, line, authCode, tokenReq, tokenRes,
                   measReq, measRes, currentWeight, registered, handled,
                   listening, scrapes, io, exchanged, fetched>>

(***************************************************************************)
(* getWeightMeasurements, lines 112-126: the URL is fixed text, so         *)
(* NewRequest succeeds; the bearer header carries accessToken.             *)
(***************************************************************************)
GetWeightPost ==
    /\ pc = "meas_post"
    /\ measReq' = [sent |-> TRUE, code |-> <<>>, bearer |-> accessToken]
    /\ \E out \in MeasureOutcomes :
        /\ measRes' = out
        /\ fetched' = MeasureSummary(out)
        /\ io' = IF out.err
                 THEN io \o <<"post_measure", "print_err">>
                 ELSE Append(io, "post_measure")
    /\ pc' = "meas_parse"
    /\ UNCHANGED <<env, exit, accessToken, line, authCode, tokenReq, tokenRes,
                   currentWeight, gauge, registered, handled, listening, scrapes, exchanged>>

(***************************************************************************)
(* getWeightMeasurements, lines 128-134.                                   *)
(***************************************************************************)
GetWeightParse_ZeroOnEmpty ==
    /\ pc = "meas_parse"
    /\ IF measRes.nilRes
       THEN /\ Terminate("panic_nil")
            /\ UNCHANGED <<currentWeight, measReq, measRes>>
       ELSE LET parsed == ParseMeasures(measRes.body) IN
            /\ currentWeight' = IF IndexPanics(parsed) THEN ZeroFloat
                                ELSE FirstValue(parsed)
            /\ measReq' = NoRequest
            /\ measRes' = NoMeasureRes
            /\ pc' = "register"
            /\ UNCHANGED exit
    /\ UNCHANGED <<env, accessToken, line, authCode, tokenReq, tokenRes,
                   gauge, registered, handled, listening, scrapes, io, exchanged, fetched>>

GetWeightParse_NilTolerant ==
    /\ pc = "meas_parse"
    /\ LET parsed == ParseMeasures(measRes.body) IN
        IF ~measRes.nilRes /\ IndexPanics(parsed)
        THEN /\ Terminate("panic_index")
             /\ UNCHANGED <<currentWeight, measReq, measRes>>
        ELSE /\ currentWeight' = IF measRes.nilRes THEN ZeroFloat
                                 ELSE FirstValue(parsed)
             /\ measReq' = NoRequest
             /\ measRes' = NoMeasureRes
             /\ pc' = "register"
             /\ UNCHANGED exit
    /\ UNCHANGED <<env, accessToken, line, authCode, tokenReq, tokenRes,
                   gauge, registered, handled, listening, scrapes, io, exchanged, fetched>>

GetWeightParse ==
    /\ pc = "meas_parse"
    /\ IF measRes.nilRes
       THEN /\ Terminate("panic_nil")
            /\ UNCHANGED <<currentWeight, measReq, measRes>>
       ELSE LET parsed == ParseMeasures(measRes.body) IN
            IF IndexPanics(parsed)
            THEN /\ Terminate("panic_index")
                 /\ UNCHANGED <<currentWeight, measReq, measRes>>
            ELSE /\ currentWeight' = FirstValue(parsed)
                 /\ measReq' = NoRequest
                 /\ measRes' = NoMeasureRes
                 /\ pc' = "register"
                 /\ UNCHANGED exit
    /\ UNCHANGED <<env, accessToken, line, authCode, tokenReq, tokenRes,
                   gauge, registered, handled, listening, scrapes, io, exchanged, fetched>>

(***************************************************************************)
(* main, lines 71-73: MustRegister, Set, log.                              *)
(***************************************************************************)
RegisterAndSet_NoSet ==
    /\ pc = "register"
    /\ registered' = TRUE
    /\ io' = io \o <<"register", "log_weight">>
    /\ pc' = "handle"
    /\ UNCHANGED <<env, exit, accessToken, line, authCode, tokenReq, tokenRes,
                   measReq, measRes, currentWeight, gauge, handled, listening,
                   scrapes, exchanged, fetched>>

RegisterAndSet ==
    /\ pc = "register"
    /\ registered' = TRUE
    /\ gauge' = [gauge EXCEPT !.value = currentWeight, !.sets = @ + 1]
    /\ io' = io \o <<"register", "set", "log_weight">>
    /\ pc' = "handle"
    /\ UNCHANGED <<env, exit, accessToken, line, authCode, tokenReq, tokenRes,
                   measReq, measRes, currentWeight, handled, listening, scrapes, exchanged, fetched>>

(***************************************************************************)
(* main, lines 75-76: http.Handle("/metrics", promhttp.Handler()).         *)
(***************************************************************************)
HandleMetrics ==
    /\ pc = "handle"
    /\ handled' = TRUE
    /\ io' = Append(io, "log_serving")
    /\ pc' = "listen"
    /\ UNCHANGED <<env, exit, accessToken, line, authCode, tokenReq, tokenRes,
                   measReq, measRes, currentWeight, gauge, registered,
                   listening, scrapes, exchanged, fetched>>

(***************************************************************************)
(* main, line 77: http.ListenAndServe binds :8080 and serves, or returns   *)
(* an error that log.Fatal turns into exit status 1.                       *)
(***************************************************************************)
ListenAndServe ==
    /\ pc = "listen"
    /\ \E bound \in BOOLEAN :
        IF bound
        THEN /\ listening' = TRUE
             /\ io' = Append(io, "listen")
             /\ pc' = "serving"
             /\ UNCHANGED exit
        ELSE /\ Terminate("fatal")
             /\ io' = Append(io, "log_fatal")
             /\ UNCHANGED listening
    /\ UNCHANGED <<env, accessToken, line, authCode, tokenReq, tokenRes,
                   measReq, measRes, currentWeight, gauge, registered, handled,
                   scrapes, exchanged, fetched>>

(***************************************************************************)
(* The serving loop ends when Serve returns an error: log.Fatal.           *)
(***************************************************************************)
ListenerError ==
    /\ pc = "serving"
    /\ listening' = FALSE
    /\ io' = Append(io, "log_fatal")
    /\ Terminate("fatal")
    /\ UNCHANGED <<env, accessToken, line, authCode, tokenReq, tokenRes,
                   measReq, measRes, currentWeight, gauge, registered, handled,
                   scrapes, exchanged, fetched>>

(***************************************************************************)
(* GET /metrics, served by promhttp.Handler(): the samples of the          *)
(* collectors this program registered.                                     *)
(***************************************************************************)
Gather ==
    IF registered
    THEN {[name |-> "withings_current_weight", value |-> gauge.value]}
    ELSE {}

Scrape_Refreshing ==
    /\ pc = "serving"
    /\ listening
    /\ handled
    /\ Len(scrapes) < MaxScrapes
    /\ gauge' = [gauge EXCEPT !.value = ZeroFloat, !.sets = @ + 1]
    /\ scrapes' = Append(scrapes, Gather)
    /\ UNCHANGED <<env, pc, exit, accessToken, line, authCode, tokenReq,
                   tokenRes, measReq, measRes, currentWeight, registered,
                   handled, listening, io, exchanged, fetched>>

Scrape ==
    /\ pc = "serving"
    /\ listening
    /\ handled
    /\ Len(scrapes) < MaxScrapes
    /\ scrapes' = Append(scrapes, Gather)
    /\ UNCHANGED <<env, pc, exit, accessToken, line, authCode, tokenReq,
                   tokenRes, measReq, measRes, currentWeight, gauge, registered,
                   handled, listening, io, exchanged, fetched>>

Next ==
    \/ MainStart
    \/ OauthPrompt
    \/ OauthPost
    \/ OauthParse
    \/ NewGauge
    \/ GetWeightPost
    \/ GetWeightParse
    \/ RegisterAndSet
    \/ HandleMetrics
    \/ ListenAndServe
    \/ ListenerError
    \/ Scrape

Spec == Init /\ [][Next]_vars

(***************************************************************************)
(* The trace io: what was printed, read, sent, registered, in order.       *)
(***************************************************************************)
Has(e) == \E i \in 1..Len(io) : io[i] = e
Count(e) == Cardinality({i \in 1..Len(io) : io[i] = e})
Before(a, b) ==
    \A i, j \in 1..Len(io) : (io[i] = a /\ io[j] = b) => i < j

OauthPcs == {"oauth_prompt", "oauth_post", "oauth_parse"}
GaugeUntouched == ~registered /\ gauge.sets = 0 /\ gauge.value = ZeroFloat
NeverServed == ~handled /\ ~listening /\ ~Has("listen") /\ scrapes = <<>>

(***************************************************************************)
(* C1: with WITHINGS_API_ACCESS_TOKEN preset, oauthFlow is never entered:  *)
(* no authorization URL printed, no console line read, no POST to the      *)
(* token endpoint; the measurement request carries the preset token.       *)
(***************************************************************************)
C1_PresetTokenSkipsOauth ==
    env.token # "" =>
        /\ pc \notin OauthPcs
        /\ ~Has("print_auth_url") /\ ~Has("read_line") /\ ~Has("post_token")
        /\ ~tokenReq.sent /\ ~exchanged.got
        /\ pc # "main" => accessToken = env.token
        /\ measReq.sent => measReq.bearer = env.token

C1_Witness ==
    /\ env.token = "tok0"
    /\ env.clientID = "id" /\ env.clientSecret = "secret"
    /\ pc = "meas_parse" /\ measReq.sent /\ Has("post_measure")

(***************************************************************************)
(* C2: without a preset token and with the client id or the client secret  *)
(* empty, main returns cleanly: no POST is made, no console line is read,  *)
(* the gauge is not registered or set, the listener is not started.        *)
(***************************************************************************)
C2_MissingCredentialsReturn ==
    (env.token = "" /\ (env.clientID = "" \/ env.clientSecret = "")
       /\ pc # "main") =>
        /\ pc = "exited" /\ exit = "returned"
        /\ ~Has("post_token") /\ ~Has("post_measure")
        /\ ~tokenReq.sent /\ ~measReq.sent
        /\ ~Has("read_line")
        /\ GaugeUntouched /\ ~gauge.created
        /\ NeverServed

C2_Witness ==
    /\ env.token = "" /\ env.clientID = "id" /\ env.clientSecret = ""
    /\ pc = "exited" /\ exit = "returned" /\ Has("print_setup_hint")

(***************************************************************************)
(* w is the first white-space-delimited word of the line l (empty when l   *)
(* holds nothing but spaces).                                              *)
(***************************************************************************)
IsFirstWord(w, l) ==
    /\ \A i \in 1..Len(w) : w[i] # " "
    /\ \E k \in 0..Len(l) :
        /\ \A i \in 1..k : l[i] = " "
        /\ k + Len(w) <= Len(l)
        /\ \A i \in 1..Len(w) : l[k + i] = w[i]
        /\ IF w = <<>> THEN k = Len(l)
           ELSE k + Len(w) = Len(l) \/ l[k + Len(w) + 1] = " "

PromptOrder ==
    /\ Count("print_auth_url") = 1 /\ Count("read_line") = 1
    /\ Count("post_token") = 1
    /\ Before("print_auth_url", "read_line")
    /\ Before("read_line", "post_token")

TokenReturned ==
    exchanged.got /\ exchanged.syntax /\ exchanged.access_token.t = "str"
    /\ pc \notin OauthPcs

TokenIsAccessTokenField ==
    TokenReturned =>
        /\ accessToken = exchanged.access_token.s
        /\ measReq.sent => measReq.bearer = exchanged.access_token.s

(***************************************************************************)
(* C3 as stated: the token oauthFlow returns, and main then uses, is the   *)
(* string in body.access_token of a response that parses as JSON; the code *)
(* sent in the token POST is exactly the console line, read after the URL  *)
(* was printed and before the POST.                                        *)
(***************************************************************************)
C3_Original ==
    /\ TokenIsAccessTokenField
    /\ tokenReq.sent => (tokenReq.code = line /\ PromptOrder)

(***************************************************************************)
(* C3 as amended: the same, but the code sent in the token POST is the     *)
(* first white-space-delimited word of the console line (the whole line    *)
(* only when the line has no white space).                                 *)
(***************************************************************************)
C3_TokenAndCode ==
    /\ TokenIsAccessTokenField
    /\ tokenReq.sent => (IsFirstWord(tokenReq.code, line) /\ PromptOrder)

C3_Witness ==
    /\ env.token = "" /\ accessToken = "tokA"
    /\ exchanged.access_token = JStr("tokA")
    /\ measReq.sent /\ measReq.bearer = "tokA"

(***************************************************************************)
(* C5: when the token POST fails at the network level, or its body cannot  *)
(* be parsed, oauthFlow does not end the process: it returns an empty      *)
(* token and main goes on to the measurement request with it.              *)
(***************************************************************************)
DiedInOauthFlow == pc = "exited" /\ exit # "returned" /\ ~gauge.created

TokenExchangeFailed ==
    /\ exchanged.got
    /\ \/ exchanged.err
       \/ ~exchanged.syntax
       \/ Mismatch(exchanged.access_token, "str")

C5_ErrorsSwallowed ==
    (TokenExchangeFailed /\ pc # "oauth_parse") =>
        /\ ~DiedInOauthFlow
        /\ accessToken = ""
        /\ measReq.sent => measReq.bearer = ""

(***************************************************************************)
(* The float w is exactly n / 1000.                                        *)
(***************************************************************************)
IsThousandth(w, n) ==
    /\ w.milli \in 0..999
    /\ 1000 * w.whole + w.milli = n

FetchDone == fetched.got /\ pc # "meas_parse"
DocReceived == fetched.got /\ ~fetched.nilRes /\ fetched.syntax
PanickedOnIndex == pc = "exited" /\ exit = "panic_index"

ReturnsFirstValue ==
    /\ ~PanickedOnIndex
    /\ fetched.firstValue.t = "num"
    /\ IsThousandth(currentWeight, fetched.firstValue.n)
    /\ fetched.firstValue.n = 75000 => currentWeight = Float(75, 0)

C6_NoGroupsPanics ==
    (FetchDone /\ DocReceived /\ fetched.groups = 0) =>
        /\ PanickedOnIndex
        /\ currentWeight = ZeroFloat
        /\ GaugeUntouched
        /\ NeverServed

C6_Witness ==
    /\ DocReceived /\ ~fetched.hasGroups /\ fetched.groups = 0
    /\ PanickedOnIndex /\ gauge.created

(***************************************************************************)
(* C7: the gauge is mutated at most once, only before the listener is      *)
(* started, and never changes once the listener is started.                *)
(***************************************************************************)
C7_GaugeSetOnceBeforeListen ==
    [][/\ gauge'.sets <= 1
       /\ <<gauge'.value, gauge'.sets>> # <<gauge.value, gauge.sets>> =>
            (~listening /\ ~listening' /\ ~Has("listen"))
       /\ Has("listen") => gauge' = gauge]_vars

C7_Witness ==
    /\ listening /\ gauge.sets = 1 /\ gauge.value = Float(1, 500)
    /\ Len(scrapes) = 2
    /\ Before("set", "listen")

(***************************************************************************)
(* C8: once the listener has started, every GET /metrics returns the one   *)
(* series withings_current_weight, carrying the weight extracted at        *)
(* startup (75 for a first value of 75000), never an unset gauge.          *)
(***************************************************************************)
C8_ScrapesReturnWeight ==
    /\ scrapes # <<>> => (Has("listen") /\ gauge.sets = 1)
    /\ \A i \in 1..Len(scrapes) :
        /\ scrapes[i] =
             {[name |-> "withings_current_weight", value |-> currentWeight]}
        /\ fetched.firstValue.t = "num" =>
             \A m \in scrapes[i] : IsThousandth(m.value, fetched.firstValue.n)
        /\ fetched.firstValue.n = 75000 =>
             \A m \in scrapes[i] : m.value = Float(75, 0)

C8_Witness ==
    /\ Len(scrapes) = 2
    /\ fetched.firstValue = JNum(75000)
    /\ \A i \in 1..2 :
         scrapes[i] = {[name |-> "withings_current_weight", value |-> Float(75, 0)]}

(***************************************************************************)
(* C9: at most one POST goes to the token endpoint and at most one to the  *)
(* measurement endpoint, whatever the outcomes; the token POST comes       *)
(* before the measurement POST.                                            *)
(***************************************************************************)
C9_OnePostEach ==
    /\ Count("post_token") <= 1
    /\ Count("post_measure") <= 1
    /\ Before("post_token", "post_measure")

C9_Witness ==
    /\ Has("post_token") /\ Has("post_measure")
    /\ exchanged.err /\ fetched.err

MeasureFetchFailed ==
    \/ fetched.err \/ fetched.nilRes \/ ~fetched.syntax
    \/ fetched.groups = 0 \/ fetched.firstMeasures = 0
    \/ Mismatch(fetched.firstValue, "num")

FirstGroupReceived ==
    /\ fetched.got /\ ~fetched.nilRes
    /\ fetched.groups >= 1 /\ fetched.firstMeasures >= 1

(***************************************************************************)
(* C10 as stated: when the listener has been started, a measurement        *)
(* response was received whose first group exists with a non-empty measure *)
(* list, the gauge is that first measure's value divided by 1000, and no   *)
(* failed fetch (network failure, unparseable body, no groups, empty first *)
(* group) is serving a zero or default gauge.                              *)
(***************************************************************************)
C10_Original ==
    Has("listen") =>
        /\ FirstGroupReceived
        /\ fetched.firstValue.t = "num"
        /\ IsThousandth(gauge.value, fetched.firstValue.n)
        /\ ~(MeasureFetchFailed /\ gauge.value = ZeroFloat)

(***************************************************************************)
(* C10 as amended: when the listener has been started, a measurement       *)
(* response that is a JSON document was received whose first group exists  *)
(* with a non-empty measure list, and the gauge is that first measure's    *)
(* value divided by 1000 when the value is a JSON number, 0 when it is of  *)
(* another JSON type; network failure, a body that is not JSON, no groups  *)
(* and an empty first group never reach the serving state.                 *)
(***************************************************************************)
C10_ServingImpliesFirstMeasure ==
    Has("listen") =>
        /\ FirstGroupReceived
        /\ ~fetched.err /\ fetched.syntax
        /\ gauge.sets = 1
        /\ fetched.firstValue.t = "num" =>
             IsThousandth(gauge.value, fetched.firstValue.n)
        /\ fetched.firstValue.t # "num" =>
             (fetched.firstValue.t = "str" /\ gauge.value = ZeroFloat)

C10_Witness ==
    /\ listening /\ pc = "serving"
    /\ fetched.firstValue = JStr("75000")
    /\ gauge.value = ZeroFloat /\ gauge.sets = 1

====
